---- MODULE Spec2Model ----
(***************************************************************************)
(* ChartGenerator (src/generator.js): one generate() call followed candle  *)
(* by candle.                                                              *)
(*                                                                         *)
(* Arithmetic.  The code computes in IEEE doubles; the model computes in   *)
(* integers with fixed scales and floor rounding:                          *)
(*   prices, caps and volumes   whole units                                *)
(*   returns ("change")         basis points, 1/10000                      *)
(*   rng() and Math.random()    thousandths, 0..999                        *)
(*   gaussianRandom(), sin()    thousandths                                *)
(* Rounding is monotone, as it is in the code, so order comparisons carry  *)
(* over.                                                                   *)
(*                                                                         *)
(* Randomness.  this.rng is seedrandom(seed): a fixed sequence per seed.   *)
(* The model takes as seeds all sequences of period 3 over RngGrid that    *)
(* are not all zero, and the generator keeps its position in the sequence. *)
(* Math.random() is unseeded: every call is a free choice from a grid.     *)
(***************************************************************************)
EXTENDS Integers, Sequences, FiniteSets, TLC

\* gen, twin: ChartGenerator objects; app: the upload endpoint, the analysis
\* service and the page
VARIABLES gen, twin, app

vars == <<gen, twin, app>>

(***************************************************************************)
(* Bounds of the model.  The code draws 150..400 pre-bonding candles and   *)
(* 500..1500 post-bonding candles; the model draws from these ranges.      *)
(***************************************************************************)
MinPreCandles == 3
MaxPreCandles == 5
MinPostCandles == 5
MaxPostCandles == 7
\* instant_rug runs draw RUG_MAX + 1 .. RUG_MAX + 1 + DeadTail candles, so that
\* (as in the code, where numCandles >= 500) the rug index is always inside.
DeadTail == 2

(***************************************************************************)
(* Program constants                                                       *)
(***************************************************************************)
INITIAL_MCAP == 5000
BONDING_MCAP == 100000
PRE_MIN == 150
PRE_MAX == 400
POST_MIN == 500
POST_MAX == 1500
RUG_MIN == 10
RUG_MAX == 30

ChartTypes == {"full", "pre", "post"}
scenarios == <<"organic", "pump_dump", "instant_rug", "slow_bleed", "consolidation">>
ScenarioNames == {scenarios[k] : k \in 1..5}
\* what a caller may pass: the five names, "random", and a name that is none of them
ScenarioInputs == ScenarioNames \cup {"random", "moon"}
\* the four levels and one that is not in any volMap
VolatilityInputs == {"low", "medium", "high", "extreme", "wild"}

(***************************************************************************)
(* Arithmetic helpers                                                      *)
(***************************************************************************)
Max(a, b) == IF a >= b THEN a ELSE b
Min(a, b) == IF a <= b THEN a ELSE b
Abs(a) == IF a < 0 THEN -a ELSE a

\* floor(a * b / d) for d > 0 without leaving 32 bits: with a = q d + r it is
\* q b + floor(r b / d).  Where r b leaves 32 bits, b = q2 d + r2 gives
\* r q2 + floor(r r2 / d) for the second term, and for a divisor so large that
\* r r2 leaves them too (a cap as divisor, b a scale factor), r and d are
\* scaled down together (relative error below 1/10000).
MulDiv(a, b, d) ==
    LET q == a \div d
        r == a % d
    IN IF r <= 2147483647 \div (IF b < 0 THEN - b ELSE b + 1)
       THEN q * b + (r * b) \div d
       ELSE IF d <= 46340
       THEN q * b + r * (b \div d) + (r * (b % d)) \div d
       ELSE q * b + ((r \div (d \div 10000)) * b) \div (d \div (d \div 10000))

TimesBp(a, bp) == MulDiv(a, bp, 10000)
\* a * (m / 1000)
TimesMilli(a, m) == MulDiv(a, m, 1000)

\* Math.sin on [0, pi], Bhaskara's approximation (error < 0.002), in thousandths
SinHalf(y) ==
    LET p == (y * (3142 - y)) \div 100
        den == 493608 - 4 * p
    IN (16 * p * 1000) \div den

\* Math.sin(x), x >= 0 in thousandths of a radian, result in thousandths
Sin(x) ==
    LET y == x % 6283
    IN IF y <= 3142 THEN SinHalf(y) ELSE -SinHalf(y - 3142)

(***************************************************************************)
(* The seeded stream: this.seed, this.rng                                  *)
(***************************************************************************)
RngGrid == {0, 11, 500, 999}
Seeds == {s \in [0..2 -> RngGrid] : \E k \in 0..2 : s[k] # 0}

\* the value the pos-th call of this.rng() returns
Stream(seed, pos) == seed[pos % 3]

\* position of the first non-zero draw at or after pos: while (u === 0) u = this.rng()
NextNonZero(seed, pos) ==
    IF Stream(seed, pos) # 0 THEN pos
    ELSE IF Stream(seed, pos + 1) # 0 THEN pos + 1
    ELSE pos + 2

\* Math.sqrt(-2.0 * Math.log(u)) on the grid, thousandths
SqrtNeg2Log(u) == CASE u = 11 -> 3003 [] u = 500 -> 1177 [] u = 999 -> 45
\* Math.cos(2.0 * Math.PI * v) on the grid, thousandths
CosTwoPi(v) == CASE v = 11 -> 998 [] v = 500 -> -1000 [] v = 999 -> 1000

\* gaussianRandom() called at stream position pos: the value and the position after
gaussianRandom(seed, pos) ==
    LET up == NextNonZero(seed, pos)
        vp == NextNonZero(seed, up + 1)
    IN [z |-> (SqrtNeg2Log(Stream(seed, up)) * CosTwoPi(Stream(seed, vp))) \div 1000,
        pos |-> vp + 1]

\* randomInt(min, max) for the draw u
randomInt(u, min, max) == (u * (max - min + 1)) \div 1000 + min

\* random(min, max) for the draw u (min, max and the result in one unit)
random(u, min, max) == (u * (max - min)) \div 1000 + min

\* Math.random(): the values the model lets a call return
MathGrid == {50, 950}
\* the finer grid for the scenario pick, one value per scenario
PickGrid == {50, 300, 500, 700, 950}

(***************************************************************************)
(* The generator and the generate() call in progress                       *)
(***************************************************************************)
NoCandle == [open |-> 0, high |-> 0, low |-> 0, close |-> 0, volume |-> 0]

\* const result = {id, scenario, data: [], metadata: {}} before generate fills it:
\* of result.data the record keeps the times and the closes, and the value of now
NoResult ==
    [scenario |-> "none", now |-> 0, times |-> << >>, closes |-> << >>,
     metadata |-> [startMcap |-> 0, finalMcap |-> 0, peakMcap |-> 0, minMcap |-> 0,
                   totalCandles |-> 0]]

\* new ChartGenerator() with this.seed = seed
Construct(seed) ==
    [pc |-> "idle", seed |-> seed, rngPos |-> 0, calls |-> 0,
     chartType |-> "none", scenario |-> "none", volatility |-> "none",
     finalScenario |-> "none",
     len |-> 0, last |-> NoCandle, stage |-> "none", prevClose |-> 0,
     preLen |-> 0, postLen |-> 0, drops |-> 0, dropAt |-> -1,
     marketCaps |-> << >>, firstOpen |-> 0,
     phaseIdx |-> 0, phaseHits |-> 0, phasesSeen |-> {},
     marketMemory |-> 0, hasBrokenOut |-> FALSE, wasBrokenOut |-> FALSE,
     totalChangePercent |-> 0, drift |-> 0, prevDrift |-> 0,
     result |-> NoResult,
     i |-> 0, numCandles |-> 0, currentMcap |-> 0, startMcap |-> 0,
     shortTermMomentum |-> 0, longTermMemory |-> 0, volumeAvg |-> 0,
     phase |-> 0, candleCount |-> 0, rugPoint |-> 0, baseDecline |-> 0,
     consolidationEnd |-> 0, breakoutUp |-> FALSE]

\* close / open <= 0.15 (a division by 0 gives Infinity or NaN: false)
IsDrop(c) ==
    IF c.open > 0 THEN c.close * 100 <= 15 * c.open
    ELSE c.open < 0 /\ c.close * 100 >= 15 * c.open

\* candles.push({open, high, low, close, volume}); currentMcap = close.
\* Of the candles pushed so far the record keeps the last one (last, stage), the
\* close before it (prevClose), their number (len, preLen, postLen), how many
\* post-bonding candles were drops and the index of the latest (drops, dropAt),
\* the open of the first one (firstOpen) and the close of each (marketCaps).
Push(g, stg, c) ==
    [g EXCEPT !.len = g.len + 1, !.prevClose = g.last.close, !.last = c,
              !.marketCaps = Append(g.marketCaps, c.close),
              !.firstOpen = IF g.len = 0 THEN c.open ELSE g.firstOpen,
              !.stage = stg, !.currentMcap = c.close,
              !.preLen = IF stg = "pre" THEN g.preLen + 1 ELSE g.preLen,
              !.postLen = IF stg = "post" THEN g.postLen + 1 ELSE g.postLen,
              !.drops = IF stg = "post" /\ IsDrop(c) THEN g.drops + 1 ELSE g.drops,
              !.dropAt = IF stg = "post" /\ IsDrop(c) THEN g.postLen ELSE g.dropAt]

\* the position of this.rng after n more calls
Advance(g, pos) == [g EXCEPT !.rngPos = pos % 3]

(***************************************************************************)
(* generatePreBonding                                                      *)
(***************************************************************************)
marketPhases ==
    << [name |-> "early_accumulation", start |-> 0,  end |-> 15,  volMult |-> 6],
       [name |-> "consolidation",      start |-> 15, end |-> 35,  volMult |-> 4],
       [name |-> "pullback",           start |-> 35, end |-> 45,  volMult |-> 13],
       [name |-> "recovery",           start |-> 45, end |-> 65,  volMult |-> 11],
       [name |-> "breakout",           start |-> 65, end |-> 80,  volMult |-> 14],
       [name |-> "final_push",         start |-> 80, end |-> 100, volMult |-> 15] >>

\* a test with both ends of a phase included
PhaseHitsClosed(i, n) ==
    {k \in 1..6 : /\ 100 * i >= marketPhases[k].start * (n - 1)
                  /\ 100 * i <= marketPhases[k].end * (n - 1)}

\* the phases whose test (progress >= p.start && progress < p.end) candle i passes,
\* progress = i / (n - 1); start and end in hundredths
PhaseHits(i, n) ==
    {k \in 1..6 : /\ 100 * i >= marketPhases[k].start * (n - 1)
                  /\ 100 * i < marketPhases[k].end * (n - 1)}

\* phases.find(progress >= start && progress < end) || phases[phases.length - 1]
PhaseIndex(i, n) ==
    LET hit == PhaseHits(i, n)
    IN IF hit = {} THEN 6 ELSE CHOOSE k \in hit : \A j \in hit : k <= j

\* the lookup of candle i recorded: the phase selected, how many phases passed the
\* test, and the phases selected so far
Lookup(g, i, n) ==
    [g EXCEPT !.phaseIdx = PhaseIndex(i, n),
              !.phaseHits = Cardinality(PhaseHits(i, n)),
              !.phasesSeen = g.phasesSeen \cup {PhaseIndex(i, n)}]

\* volMap[volatility] || 0.15, basis points
PreVol(volatility) ==
    CASE volatility = "low" -> 800
      [] volatility = "medium" -> 1500
      [] volatility = "high" -> 2500
      [] volatility = "extreme" -> 3500
      [] OTHER -> 1500

\* the pre-bonding ceiling, BONDING_MCAP * 1000
PreBondingCeiling == BONDING_MCAP * 1000

\* if (close > preBondingCeiling) close = preBondingCeiling
PreClampCloseAtBonding(close) == IF close > BONDING_MCAP THEN BONDING_MCAP ELSE close

\* if (close > preBondingCeiling) close = preBondingCeiling
PreClampClose(close) == IF close > PreBondingCeiling THEN PreBondingCeiling ELSE close

\* volume = Math.max(10000, volume)
PreMinVolume(volume) == Max(10000, volume)

\* expectedMcap = INITIAL_MCAP + (zonePeak - INITIAL_MCAP) * zoneProgress
ExpectedMcap(i, n) ==
    LET zonePeak == (BONDING_MCAP * 4) \div 10
    IN INITIAL_MCAP + ((zonePeak - INITIAL_MCAP) * i) \div (n - 1)

\* hasBrokenOut = currentMcap > breakoutThreshold, breakoutThreshold = expectedMcap * 1.5
HasBrokenOut(currentMcap, i, n) == currentMcap > (ExpectedMcap(i, n) * 15) \div 10

\* a mean reversion that pulls whether or not the price has broken out
MarketMemoryAlways(currentMcap, i, n) ==
    (MulDiv(ExpectedMcap(i, n) - currentMcap, 10000,
            IF currentMcap = 0 THEN 1 ELSE Abs(currentMcap)) * 8) \div 1000

\* zone-aware mean reversion term, basis points
MarketMemory(currentMcap, i, n) ==
    LET expectedMcap == ExpectedMcap(i, n)
        hasBrokenOut == HasBrokenOut(currentMcap, i, n)
        denom == IF currentMcap = 0 THEN 1 ELSE Abs(currentMcap)
        deviationPercent == MulDiv(expectedMcap - currentMcap, 10000, denom)
    IN IF hasBrokenOut THEN 0 ELSE MulDiv(deviationPercent, 8, 1000)

\* a swing clamp of twice the width
MaxSwingWide(bodySize, currentMcap) == Max(bodySize * 3, (currentMcap * 10) \div 100)

\* maxSwing = Math.max(bodySize * 1.5, currentMcap * 0.05)
MaxSwing(bodySize, currentMcap) == Max(MulDiv(bodySize, 15, 10), (currentMcap * 5) \div 100)

\* one iteration of the loop of generatePreBonding
PreBondingStep(g) ==
    LET i == g.i
        n == g.numCandles
        currentPhase == marketPhases[PhaseIndex(i, n)]
        baseVolatility == (PreVol(g.volatility) * currentPhase.volMult) \div 10
        g1 == gaussianRandom(g.seed, g.rngPos)
        randomShock == (g1.z * baseVolatility) \div 1000
        momentumInfluence == (g.shortTermMomentum * 2) \div 10
        memoryInfluence == (g.longTermMemory * 5) \div 100
        cyclePosition == (Sin(i * 50) * 5) \div 10
        cycleInfluence == (cyclePosition * baseVolatility * 2) \div 10000
        marketMemory == MarketMemory(g.currentMcap, i, n)
        totalChangePercent ==
            randomShock + momentumInfluence + memoryInfluence + cycleInfluence
              + marketMemory
        open == g.currentMcap
        close == PreClampClose(TimesBp(open, 10000 + totalChangePercent))
        bodySize == Abs(close - open)
        wickMultiplier == 500 + (Stream(g.seed, g1.pos) * 8) \div 10
        highWick == TimesMilli(bodySize, wickMultiplier)
        lowWick == MulDiv(TimesMilli(bodySize, wickMultiplier), 85, 100)
        maxSwing == MaxSwing(bodySize, g.currentMcap)
        high == Min(Min(Max(open, close) + highWick, open + maxSwing), PreBondingCeiling)
        low == Max(Max(Min(open, close) - lowWick, open - maxSwing), 0)
        g2 == gaussianRandom(g.seed, g1.pos + 1)
        volumeMultiplier == 10000 + Abs(totalChangePercent) * 3
        volumeNoise == (g2.z * 3) \div 10
        volume == PreMinVolume(
                    TimesMilli(TimesBp(g.volumeAvg, volumeMultiplier), 1000 + volumeNoise))
        c == [open |-> open, high |-> high, low |-> low, close |-> close,
              volume |-> volume]
    IN [Advance(Push(Lookup(g, i, n), "pre", c), g2.pos) EXCEPT
          !.i = i + 1,
          !.marketMemory = marketMemory,
          !.hasBrokenOut = HasBrokenOut(g.currentMcap, i, n),
          !.wasBrokenOut = g.hasBrokenOut,
          !.totalChangePercent = totalChangePercent,
          !.shortTermMomentum =
              (g.shortTermMomentum * 85) \div 100 + (totalChangePercent * 15) \div 100,
          !.longTermMemory =
              (g.longTermMemory * 97) \div 100 + (totalChangePercent * 3) \div 100,
          !.volumeAvg = MulDiv(g.volumeAvg, 98, 100) + MulDiv(volume, 2, 100)]

\* a pre-bonding part that starts at the bonding cap
PreBondingBeginAtBonding(g) ==
    [Advance(g, g.rngPos + 1) EXCEPT
        !.pc = "pre",
        !.numCandles = randomInt(Stream(g.seed, g.rngPos), MinPreCandles, MaxPreCandles),
        !.i = 0,
        !.currentMcap = BONDING_MCAP,
        !.volumeAvg = (50000 + 150000) \div 2,
        !.shortTermMomentum = 0,
        !.longTermMemory = 0]

\* the prologue of generatePreBonding: numCandles, currentMcap, volumeAvg, momentum
PreBondingBegin(g) ==
    [Advance(g, g.rngPos + 1) EXCEPT
        !.pc = "pre",
        !.numCandles = randomInt(Stream(g.seed, g.rngPos), MinPreCandles, MaxPreCandles),
        !.i = 0,
        !.currentMcap = INITIAL_MCAP,
        !.volumeAvg = (50000 + 150000) \div 2,
        !.shortTermMomentum = 0,
        !.longTermMemory = 0]

(***************************************************************************)
(* generatePostBonding and the five scenario generators                    *)
(***************************************************************************)
\* the model's 0 stands for a double in [0, 1): a divisor is never exactly 0
NonZero(x) == IF x = 0 THEN 1 ELSE x

\* (a - b) / b in basis points
RelativeBp(a, b) ==
    IF b > 0 THEN MulDiv(a - b, 10000, b) ELSE - MulDiv(a - b, 10000, - NonZero(b))

\* a phase of no candles
FloorNothing(n) == 0

\* Math.floor(n * 0.25), Math.floor(n * 0.15): the double product floors as the exact one
Floor025(n) == (n * 25) \div 100
Floor015(n) == (n * 15) \div 100

\* Math.floor(n * 0.35): the double 0.35 is 0.4 * 2^-54 below 0.35, so for n a
\* multiple of 20 with a power of two P, 5P < n < 40P/7, the product rounds to
\* just below the integer 0.35 n and floors one lower (n = 180, 340, 360, 660, ...)
Floor035(n) ==
    LET exact == (n * 35) \div 100
        low == n % 20 = 0 /\ \E j \in 0..10 : 5 * (2 ^ j) < n /\ 7 * n < 40 * (2 ^ j)
    IN IF low THEN exact - 1 ELSE exact

\* Math.floor(n * 0.7): the double 0.7 is 0.4 * 2^-53 below 0.7; for n a multiple of
\* 10 with a power of two P, 5P < 2n and 7n < 20P, it floors one lower (n = 90, 170, ...)
Floor07(n) ==
    LET exact == (n * 7) \div 10
        low == n % 10 = 0 /\ \E j \in 0..10 : 5 * (2 ^ j) < 2 * n /\ 7 * n < 20 * (2 ^ j)
    IN IF low THEN exact - 1 ELSE exact

\* the range numCandles is drawn from
PostCountMin(scenario) == IF scenario = "instant_rug" THEN RUG_MAX + 1 ELSE MinPostCandles
PostCountMax(scenario) ==
    IF scenario = "instant_rug" THEN RUG_MAX + 1 + DeadTail ELSE MaxPostCandles

\* switch (scenario) { ... default: generateOrganic }
Dispatch(scenario) == IF scenario \in ScenarioNames THEN scenario ELSE "organic"

\* ---- generateOrganic ----
OrganicVol(volatility) ==
    CASE volatility = "low" -> 120
      [] volatility = "medium" -> 200
      [] volatility = "high" -> 300
      [] volatility = "extreme" -> 400
      [] OTHER -> 200

\* a close that is left as computed
NoCeilingClamp(close) == close

\* if (close > this.BONDING_MCAP) close = this.BONDING_MCAP
CeilingClamp(close) == IF close > BONDING_MCAP THEN BONDING_MCAP ELSE close

\* high = Math.min(high, this.BONDING_MCAP * 1.005)
OrganicHighClamp(high) == Min(high, (BONDING_MCAP * 1005) \div 1000)

\* low = Math.max(low, currentMcap * 0.9)
OrganicLowClamp(low, currentMcap) == Max(low, (currentMcap * 9) \div 10)

\* volume = Math.max(15000, volume)
OrganicMinVolume(volume) == Max(15000, volume)

OrganicStep(g) ==
    LET i == g.i
        vol == OrganicVol(g.volatility)
        deviation == RelativeBp(g.currentMcap, BONDING_MCAP)
        meanReversionForce == ((- deviation) * 5) \div 100
        g1 == gaussianRandom(g.seed, g.rngPos)
        diffusion == (g1.z * vol) \div 1000
        organicDrift == 5
        cycle == (Sin(i * 20) * vol * 2) \div 10000
        change == meanReversionForce + diffusion + organicDrift + cycle
        open == g.currentMcap
        close == CeilingClamp(TimesBp(open, 10000 + change))
        bodySize == Abs(close - open)
        wickMultiplier == 2 * ((Stream(g.seed, g1.pos) * 4) \div 1000 + 1)
        wick == (bodySize * wickMultiplier) \div 10
        high == OrganicHighClamp(
                    Max(open, close) + TimesMilli(wick, Stream(g.seed, g1.pos + 1)))
        low == OrganicLowClamp(
                    Min(open, close)
                       - (TimesMilli(wick, Stream(g.seed, g1.pos + 2)) * 7) \div 10,
                    g.currentMcap)
        g2 == gaussianRandom(g.seed, g1.pos + 3)
        volumeMultiplier == 10000 + Abs(change) * 2
        volumeNoise == (g2.z * 25) \div 100
        volume == OrganicMinVolume(
                    TimesMilli(TimesBp(g.volumeAvg, volumeMultiplier), 1000 + volumeNoise))
        c == [open |-> open, high |-> high, low |-> low, close |-> close,
              volume |-> volume]
    IN [Advance(Push(g, "post", c), g2.pos) EXCEPT
          !.i = i + 1,
          !.volumeAvg = (g.volumeAvg * 99) \div 100 + volume \div 100]

\* ---- generatePumpDump ----
PumpVol(volatility) ==
    CASE volatility = "low" -> 250
      [] volatility = "medium" -> 350
      [] volatility = "high" -> 450
      [] volatility = "extreme" -> 550
      [] OTHER -> 350

\* the phases array for numCandles = n: drift in basis points, volMult in tenths
PumpPhases(n) ==
    << [name |-> "accumulation", duration |-> Floor025(n), drift |-> 20,   volMult |-> 8],
       [name |-> "pump",         duration |-> Floor025(n), drift |-> 80,   volMult |-> 20],
       [name |-> "distribution", duration |-> Floor015(n), drift |-> -10,  volMult |-> 15],
       [name |-> "dump",         duration |-> Floor035(n), drift |-> -150, volMult |-> 25] >>

\* the (phase, i) of the next iteration of the nested loops, phase 5 when both ended:
\* for (const phase of phases) for (i = 0; i < phase.duration && candleCount < numCandles; i++)
RECURSIVE PumpCursor(_, _, _, _)
PumpCursor(ph, i, count, n) ==
    IF ph > 4 THEN [phase |-> 5, i |-> 0]
    ELSE IF i < PumpPhases(n)[ph].duration /\ count < n THEN [phase |-> ph, i |-> i]
    ELSE PumpCursor(ph + 1, 0, count, n)

\* distanceToCeiling < 0.05, distanceToCeiling = (BONDING_MCAP - currentMcap) / currentMcap
NearCeiling(currentMcap) ==
    IF currentMcap > 0 THEN (BONDING_MCAP - currentMcap) * 100 < 5 * currentMcap
    ELSE currentMcap < 0

\* close = this.BONDING_MCAP * (0.995 + this.rng() * 0.01)
PumpRejection(u) == MulDiv(BONDING_MCAP, 99500 + u, 100000)

\* high = Math.min(high, this.BONDING_MCAP * 1.01)
PumpHighClamp(high) == Min(high, (BONDING_MCAP * 101) \div 100)

\* low = Math.max(low, currentMcap * 0.85)
PumpLowClamp(low, currentMcap) == Max(low, (currentMcap * 85) \div 100)

\* the volume without its floor
PumpNoMinVolume(volume) == volume

\* volume = Math.max(20000, volume)
PumpMinVolume(volume) == Max(20000, volume)

PumpDumpStep(g) ==
    LET cur == PumpCursor(g.phase, g.i, g.candleCount, g.numCandles)
        phase == PumpPhases(g.numCandles)[cur.phase]
        vol == PumpVol(g.volatility)
        phaseDrift == IF phase.name = "pump" /\ NearCeiling(g.currentMcap)
                      THEN (phase.drift * 3) \div 10 ELSE phase.drift
        g1 == gaussianRandom(g.seed, g.rngPos)
        noise == (((g1.z * vol) \div 1000) * phase.volMult) \div 10
        change == phaseDrift + noise
        open == g.currentMcap
        raw == TimesBp(open, 10000 + change)
        rejected == raw > BONDING_MCAP /\ phase.name = "pump"
        close == IF rejected THEN PumpRejection(Stream(g.seed, g1.pos))
                 ELSE CeilingClamp(raw)
        p2 == IF rejected THEN g1.pos + 1 ELSE g1.pos
        bodySize == Abs(close - open)
        wick == (bodySize * phase.volMult * 8) \div 100
        high == PumpHighClamp(Max(open, close) + TimesMilli(wick, Stream(g.seed, p2)))
        low == PumpLowClamp(
                  Min(open, close) - (TimesMilli(wick, Stream(g.seed, p2 + 1)) * 6) \div 10,
                  g.currentMcap)
        g2 == gaussianRandom(g.seed, p2 + 2)
        baseVolume == (g.volumeAvg * phase.volMult) \div 10
        volumeMultiplier == 10000 + Abs(change) * 4
        volumeNoise == (g2.z * 4) \div 10
        volume == PumpMinVolume(
                    TimesMilli(TimesBp(baseVolume, volumeMultiplier), 1000 + volumeNoise))
        c == [open |-> open, high |-> high, low |-> low, close |-> close,
              volume |-> volume]
    IN [Advance(Push(g, "post", c), g2.pos) EXCEPT
          !.phase = cur.phase,
          !.i = cur.i + 1,
          !.drift = phaseDrift,
          !.prevDrift = g.drift,
          !.candleCount = g.candleCount + 1,
          !.volumeAvg = (g.volumeAvg * 98) \div 100 + (volume * 2) \div 100]

\* ---- generateInstantRug ----
RugVol(volatility) ==
    CASE volatility = "low" -> 100
      [] volatility = "medium" -> 200
      [] volatility = "high" -> 300
      [] volatility = "extreme" -> 400
      [] OTHER -> 200

\* a rug that drops 75-85% instead of 85-95%
RugChangeWeak(i, rugPoint, vol, u) ==
    IF i < rugPoint THEN random(u, - (vol * 5) \div 10, (vol * 15) \div 10)
    ELSE IF i = rugPoint THEN - random(u, 7500, 8500)
    ELSE random(u, -10, 10)

\* a chart that keeps its pre-rug behaviour after the rug
RugChangeLively(i, rugPoint, vol, u) ==
    IF i = rugPoint THEN - random(u, 8500, 9500)
    ELSE random(u, - (vol * 5) \div 10, (vol * 15) \div 10)

\* change of candle i for the draw u of this.rng(), basis points
RugChange(i, rugPoint, vol, u) ==
    IF i < rugPoint THEN random(u, - (vol * 5) \div 10, (vol * 15) \div 10)
    ELSE IF i = rugPoint THEN - random(u, 8500, 9500)
    ELSE random(u, -10, 10)

\* volume of candle i for the draw m of Math.random()
RugVolume(i, rugPoint, m) ==
    IF i < rugPoint THEN 100000 + TimesMilli(50000, m)
    ELSE IF i = rugPoint THEN 500000 + TimesMilli(500000, m)
    ELSE 1000 + TimesMilli(5000, m)

\* close = Math.max(this.INITIAL_MCAP * 0.1, open * (1 + change))
RugClose(open, change) == Max(INITIAL_MCAP \div 10, TimesBp(open, 10000 + change))

\* m = <<volume draw, high draw, low draw>> of Math.random()
InstantRugStep(g, m) ==
    LET i == g.i
        vol == RugVol(g.volatility)
        change == RugChange(i, g.rugPoint, vol, Stream(g.seed, g.rngPos))
        volume == RugVolume(i, g.rugPoint, m[1])
        open == g.currentMcap
        close == RugClose(open, change)
        wickFactor == IF i = g.rugPoint THEN 2 ELSE 5
        wickSize == (TimesBp(g.currentMcap, vol) * wickFactor) \div 10
        high == Max(open, close) + TimesMilli(wickSize, m[2])
        low == Min(open, close) - TimesMilli(wickSize, m[3]) * 2
        c == [open |-> open, high |-> high, low |-> low, close |-> close,
              volume |-> volume]
    IN [Advance(Push(g, "post", c), g.rngPos + 1) EXCEPT !.i = i + 1]

\* ---- generateSlowBleed ----
BleedVol(volatility) ==
    CASE volatility = "low" -> 100
      [] volatility = "medium" -> 150
      [] volatility = "high" -> 200
      [] volatility = "extreme" -> 250
      [] OTHER -> 150

\* Math.log(targetMcap / startMcap), targetMcap = startMcap * random(0.1, 0.2), for
\* the draw u on the grid, basis points
TotalDecline(u) ==
    CASE u = 0 -> -23026 [] u = 11 -> -22917 [] u = 500 -> -18971 [] u = 999 -> -16099

\* close = Math.max(this.INITIAL_MCAP * 0.5, open * (1 + change))
BleedClose(open, change) == Max(INITIAL_MCAP \div 2, TimesBp(open, 10000 + change))

\* volume = 100000 - progress * 70000 + Math.random() * 30000, progress = i / n
BleedVolume(i, n, m) == 100000 - (70000 * i) \div n + TimesMilli(30000, m)

\* m = <<rally draw, high draw, low draw, volume draw>> of Math.random()
SlowBleedStep(g, m) ==
    LET i == g.i
        n == g.numCandles
        vol == BleedVol(g.volatility)
        decline == g.baseDecline + (g.baseDecline * 2 * i) \div n
        hasRally == m[1] < 80
        gr == gaussianRandom(g.seed, g.rngPos)
        rally == IF hasRally THEN (Abs(gr.z) * vol * 2) \div 1000 ELSE 0
        p1 == IF hasRally THEN gr.pos ELSE g.rngPos
        g1 == gaussianRandom(g.seed, p1)
        noise == (g1.z * vol) \div 1000
        change == decline + noise + rally
        open == g.currentMcap
        close == BleedClose(open, change)
        wickSize == (TimesBp(g.currentMcap, vol) * 5) \div 10
        high == Max(open, close) + TimesMilli(wickSize, m[2])
        low == Min(open, close) - TimesMilli(wickSize, m[3])
        volume == BleedVolume(i, n, m[4])
        c == [open |-> open, high |-> high, low |-> low, close |-> close,
              volume |-> volume]
    IN [Advance(Push(g, "post", c), g1.pos) EXCEPT !.i = i + 1]

\* ---- generateConsolidation ----
ConsolidationVol(volatility) ==
    CASE volatility = "low" -> 80
      [] volatility = "medium" -> 120
      [] volatility = "high" -> 160
      [] volatility = "extreme" -> 200
      [] OTHER -> 120

\* (rangeHigh + rangeLow) / 2, rangeHigh = startMcap * 1.1, rangeLow = startMcap * 0.9
RangeCenter(startMcap) == ((startMcap * 11) \div 10 + (startMcap * 9) \div 10) \div 2

\* a breakout that fades: (breakoutUp ? 0.008 : -0.008) * (2 - breakoutProgress)
BreakoutStrengthFading(breakoutUp, i, consolidationEnd, n) ==
    LET magnitude == 160 - (80 * (i - consolidationEnd)) \div (n - consolidationEnd)
    IN IF breakoutUp THEN magnitude ELSE - magnitude

\* (breakoutUp ? 0.008 : -0.008) * (1 + breakoutProgress), basis points
BreakoutStrength(breakoutUp, i, consolidationEnd, n) ==
    LET magnitude == 80 + (80 * (i - consolidationEnd)) \div (n - consolidationEnd)
    IN IF breakoutUp THEN magnitude ELSE - magnitude

\* m = <<volume draw, high draw, low draw>> of Math.random()
ConsolidationStep(g, m) ==
    LET i == g.i
        n == g.numCandles
        vol == ConsolidationVol(g.volatility)
        inRange == i < g.consolidationEnd
        rangeTightening == 1000 - (500 * i) \div NonZero(g.consolidationEnd)
        distFromCenter == RelativeBp(g.currentMcap, RangeCenter(g.startMcap))
        pullToCenter == (- distFromCenter) \div 10
        g1 == gaussianRandom(g.seed, g.rngPos)
        change == IF inRange
                  THEN pullToCenter
                         + TimesMilli(TimesMilli(vol, Sin(i * 150)), rangeTightening)
                         + (g1.z * vol * 5) \div 10000
                  ELSE BreakoutStrength(g.breakoutUp, i, g.consolidationEnd, n)
                         + (g1.z * vol) \div 1000
        volume == IF inRange THEN 60000 + TimesMilli(40000, m[1])
                  ELSE 150000 + TimesMilli(100000, m[1])
        open == g.currentMcap
        close == TimesBp(open, 10000 + change)
        wickSize == (TimesBp(g.currentMcap, vol) * 3) \div 10
        high == Max(open, close) + TimesMilli(wickSize, m[2])
        low == Min(open, close) - TimesMilli(wickSize, m[3])
        c == [open |-> open, high |-> high, low |-> low, close |-> close,
              volume |-> volume]
    IN [Advance(Push(g, "post", c), g1.pos) EXCEPT
          !.i = i + 1,
          !.drift = IF inRange THEN 0
                    ELSE BreakoutStrength(g.breakoutUp, i, g.consolidationEnd, n),
          !.prevDrift = g.drift]

\* a post-bonding part that always starts at the bonding cap
StartMcapAtBonding(g) == BONDING_MCAP

\* data.length > 0 ? data[data.length - 1].close : this.BONDING_MCAP
StartMcap(g) == IF g.len > 0 THEN g.last.close ELSE BONDING_MCAP

\* ---- generatePostBonding: numCandles and the prologue of the scenario generator ----
\* m is the draw of Math.random() that consolidation takes for breakoutUp
PostBondingBegin(g, m) ==
    LET scn == Dispatch(g.finalScenario)
        startMcap == StartMcap(g)
        n == randomInt(Stream(g.seed, g.rngPos), PostCountMin(scn), PostCountMax(scn))
        u == Stream(g.seed, g.rngPos + 1)
        takes == scn \in {"instant_rug", "slow_bleed"}
    IN [Advance(g, IF takes THEN g.rngPos + 2 ELSE g.rngPos + 1) EXCEPT
          !.pc = scn,
          !.numCandles = n,
          !.i = 0,
          !.startMcap = startMcap,
          !.currentMcap = startMcap,
          !.volumeAvg = CASE scn = "organic" -> (80000 + 120000) \div 2
                          [] scn = "pump_dump" -> (100000 + 150000) \div 2
                          [] OTHER -> 0,
          !.phase = IF scn = "pump_dump" THEN 1 ELSE 0,
          !.candleCount = 0,
          !.rugPoint = IF scn = "instant_rug" THEN randomInt(u, RUG_MIN, RUG_MAX) ELSE 0,
          !.baseDecline = IF scn = "slow_bleed" THEN TotalDecline(u) \div n ELSE 0,
          !.consolidationEnd = IF scn = "consolidation" THEN Floor07(n) ELSE 0,
          !.breakoutUp = scn = "consolidation" /\ m > 500]

\* the loop of the running scenario generator has ended
LoopEnded(g) ==
    IF g.pc = "pump_dump"
    THEN PumpCursor(g.phase, g.i, g.candleCount, g.numCandles).phase = 5
    ELSE g.i >= g.numCandles

\* generatePreBonding returns: generate goes on to the post-bonding part or to the map
PreBondingExit(g) == [g EXCEPT !.pc = IF g.chartType = "full" THEN "postStart" ELSE "map"]

(***************************************************************************)
(* generate                                                                *)
(***************************************************************************)
\* Math.max(...marketCaps) and Math.min(...marketCaps) of a non-empty array
RECURSIVE MaxOf(_)
MaxOf(caps) ==
    IF Len(caps) = 1 THEN caps[1] ELSE Max(caps[1], MaxOf(Tail(caps)))

RECURSIVE MinOf(_)
MinOf(caps) ==
    IF Len(caps) = 1 THEN caps[1] ELSE Min(caps[1], MinOf(Tail(caps)))

\* calculateMetadata(data) for data.length > 0, marketCaps = data.map((d) => d.close)
calculateMetadata(marketCaps) ==
    [startMcap |-> marketCaps[1],
     finalMcap |-> marketCaps[Len(marketCaps)],
     peakMcap |-> MaxOf(marketCaps),
     minMcap |-> MinOf(marketCaps),
     totalCandles |-> Len(marketCaps)]

\* Math.floor(Date.now() / 1000): the values the model lets it take
NowGrid == {1700000000, 1700000059}

\* a step that ends one candle late
CandleTimeLate(now, length, i) == now - (length - i - 1) * 60

\* time: now - (data.length - i) * 60, i the 0-based index
CandleTime(now, length, i) == now - (length - i) * 60

\* result.data = data.map(...); result.metadata = this.calculateMetadata(data)
ReturnResult(g, now) ==
    [g EXCEPT !.pc = "done",
              !.result = [scenario |-> g.result.scenario,
                          now |-> now,
                          times |-> [k \in 1..g.len |-> CandleTime(now, g.len, k - 1)],
                          closes |-> g.marketCaps,
                          metadata |-> calculateMetadata(g.marketCaps)]]

\* scenario === "random" ? scenarios[Math.floor(Math.random() * 5)] : scenario
FinalScenario(scenario, m) ==
    IF scenario = "random" THEN scenarios[(m * 5) \div 1000 + 1] ELSE scenario

\* generate(options) up to the first loop
GenerateCall(g, chartType, scenario, volatility, m) ==
    LET g0 == [g EXCEPT !.chartType = chartType, !.scenario = scenario,
                        !.volatility = volatility, !.calls = g.calls + 1,
                        !.finalScenario = FinalScenario(scenario, m),
                        !.len = 0, !.last = NoCandle, !.stage = "none",
                        !.prevClose = 0, !.preLen = 0, !.postLen = 0,
                        !.drops = 0, !.dropAt = -1,
                        !.marketCaps = << >>, !.firstOpen = 0,
                        !.phaseIdx = 0, !.phaseHits = 0, !.phasesSeen = {},
                        !.marketMemory = 0, !.hasBrokenOut = FALSE,
                        !.wasBrokenOut = FALSE, !.totalChangePercent = 0,
                        !.drift = 0, !.prevDrift = 0,
                        !.result = [NoResult EXCEPT
                                      !.scenario = FinalScenario(scenario, m)]]
    IN IF chartType \in {"full", "pre"} THEN PreBondingBegin(g0)
       ELSE [g0 EXCEPT !.pc = "postStart"]


(***************************************************************************)
(* The upload endpoint (POST /api/analyze-chart), ClaudeCodeService and    *)
(* the page's analyzeChart.  An async function is one action per stretch   *)
(* of code between two awaits; a file operation takes effect when it is    *)
(* called and its await resumes in a later action.                         *)
(***************************************************************************)
MaxRequests == 2
MaxTick == 2
MaxRuns == 4
MaxCharts == 3

Requests == 1..MaxRequests

\* req.file.path: multer stores each upload under tmp/ with a name of its own
UploadPath(r) == <<"tmp", r>>

\* path.join(process.cwd(), `chart_${Date.now()}.png`)
CurrentDirImage(t) == <<"chart", t>>

\* a request that has not arrived: status is the HTTP status sent (0: none yet),
\* unlinks the calls of fs.unlink on the upload, called / ran whether
\* analyzeChart was called and the external command started, events the events
\* emitted for the call, settled how the call's promise settled, image the
\* Date.now() in the name of the copied image (0: nothing copied)
NoRequest ==
    [pc |-> "idle", hasFile |-> FALSE, status |-> 0, unlinks |-> 0,
     called |-> FALSE, ran |-> FALSE, events |-> <<>>, settled |-> "none",
     image |-> 0]

\* the page as loaded: let currentData = null, no listener yet, the button as
\* the markup has it; textBefore is the label when the last run began, runs the
\* calls of analyzeChart so far, chartId the id in the last form sent
Page ==
    [pc |-> "idle", ready |-> FALSE, currentData |-> 0,
     textContent |-> "Analyze with Claude", disabled |-> FALSE,
     sidebar |-> "hidden", textBefore |-> "Analyze with Claude", runs |-> 0,
     chartId |-> 0]

\* the generator on its own: neither the server nor the page is running
NoApp == "none"

\* new ClaudeCodeService() without a session key, an empty tmp/ and working
\* directory, no request
AppOff ==
    [isEnabled |-> FALSE, now |-> 1, files |-> {}, sessionHistory |-> {},
     req |-> [r \in Requests |-> NoRequest], ui |-> Page]

Init ==
    /\ \E seed \in Seeds : gen = Construct(seed)
    /\ twin = Construct([k \in 0..2 |-> 11])
    /\ app = NoApp

Generate ==
    /\ gen.pc = "idle"
    /\ \E chartType \in ChartTypes, scenario \in ScenarioInputs,
          volatility \in VolatilityInputs, m \in PickGrid :
         gen' = GenerateCall(gen, chartType, scenario, volatility, m)
    /\ UNCHANGED <<twin, app>>

PreBondingCandle ==
    /\ gen.pc = "pre"
    /\ gen.i < gen.numCandles
    /\ gen' = PreBondingStep(gen)
    /\ UNCHANGED <<twin, app>>

\* the loop of generatePreBonding ends: back in generate
PreBondingReturn ==
    /\ gen.pc = "pre"
    /\ gen.i >= gen.numCandles
    /\ gen' = PreBondingExit(gen)
    /\ UNCHANGED <<twin, app>>

GeneratePostBonding ==
    /\ gen.pc = "postStart"
    /\ \E m \in MathGrid : gen' = PostBondingBegin(gen, m)
    /\ UNCHANGED <<twin, app>>

OrganicCandle ==
    /\ gen.pc = "organic"
    /\ ~ LoopEnded(gen)
    /\ gen' = OrganicStep(gen)
    /\ UNCHANGED <<twin, app>>

PumpDumpCandle ==
    /\ gen.pc = "pump_dump"
    /\ ~ LoopEnded(gen)
    /\ gen' = PumpDumpStep(gen)
    /\ UNCHANGED <<twin, app>>

InstantRugCandle ==
    /\ gen.pc = "instant_rug"
    /\ ~ LoopEnded(gen)
    /\ \E m \in [1..3 -> MathGrid] : gen' = InstantRugStep(gen, m)
    /\ UNCHANGED <<twin, app>>

SlowBleedCandle ==
    /\ gen.pc = "slow_bleed"
    /\ ~ LoopEnded(gen)
    /\ \E m \in [1..4 -> MathGrid] : gen' = SlowBleedStep(gen, m)
    /\ UNCHANGED <<twin, app>>

ConsolidationCandle ==
    /\ gen.pc = "consolidation"
    /\ ~ LoopEnded(gen)
    /\ \E m \in [1..3 -> MathGrid] : gen' = ConsolidationStep(gen, m)
    /\ UNCHANGED <<twin, app>>

\* the scenario generator returns its candles to generate
PostBondingReturn ==
    /\ gen.pc \in ScenarioNames
    /\ LoopEnded(gen)
    /\ gen' = [gen EXCEPT !.pc = "map"]
    /\ UNCHANGED <<twin, app>>

\* result.data = data.map(...); result.metadata = calculateMetadata(data); return result
Return ==
    /\ gen.pc = "map"
    /\ \E now \in NowGrid : gen' = ReturnResult(gen, now)
    /\ UNCHANGED <<twin, app>>

Next ==
    \/ Generate
    \/ PreBondingCandle
    \/ PreBondingReturn
    \/ GeneratePostBonding
    \/ OrganicCandle
    \/ PumpDumpCandle
    \/ InstantRugCandle
    \/ SlowBleedCandle
    \/ ConsolidationCandle
    \/ PostBondingReturn
    \/ Return

Spec == Init /\ [][Next]_vars

(***************************************************************************)
(* The instant_rug charts alone: generate is called with scenario          *)
(* "instant_rug" and a chart type that has a post-bonding part.            *)
(***************************************************************************)
GenerateInstantRug ==
    /\ gen.pc = "idle"
    /\ \E chartType \in {"full", "post"}, volatility \in VolatilityInputs,
          m \in PickGrid :
         gen' = GenerateCall(gen, chartType, "instant_rug", volatility, m)
    /\ UNCHANGED <<twin, app>>

RugNext ==
    \/ GenerateInstantRug
    \/ PreBondingCandle
    \/ PreBondingReturn
    \/ GeneratePostBonding
    \/ InstantRugCandle
    \/ PostBondingReturn
    \/ Return

SpecRug == Init /\ [][RugNext]_vars

(***************************************************************************)
(* Longer pre-bonding runs: generate({chartType: "pre"}) with numCandles   *)
(* drawn from LongPreMin..LongPreMax, every volatility.                    *)
(***************************************************************************)
LongPreMin == 8
LongPreMax == 20

GeneratePreBonding ==
    /\ gen.pc = "idle"
    /\ \E volatility \in VolatilityInputs, m \in PickGrid :
         gen' = [GenerateCall(gen, "pre", "random", volatility, m) EXCEPT
                   !.numCandles = randomInt(Stream(gen.seed, gen.rngPos),
                                            LongPreMin, LongPreMax)]
    /\ UNCHANGED <<twin, app>>

PreNext ==
    \/ GeneratePreBonding
    \/ PreBondingCandle
    \/ PreBondingReturn
    \/ Return

SpecPre == Init /\ [][PreNext]_vars

(***************************************************************************)
(* The pump_dump charts alone and the consolidation charts alone.          *)
(***************************************************************************)
GeneratePumpDump ==
    /\ gen.pc = "idle"
    /\ \E chartType \in {"full", "post"}, volatility \in VolatilityInputs,
          m \in PickGrid :
         gen' = GenerateCall(gen, chartType, "pump_dump", volatility, m)
    /\ UNCHANGED <<twin, app>>

PumpNext ==
    \/ GeneratePumpDump
    \/ PreBondingCandle
    \/ PreBondingReturn
    \/ GeneratePostBonding
    \/ PumpDumpCandle
    \/ PostBondingReturn
    \/ Return

SpecPump == Init /\ [][PumpNext]_vars

GenerateConsolidation ==
    /\ gen.pc = "idle"
    /\ \E chartType \in {"full", "post"}, volatility \in VolatilityInputs,
          m \in PickGrid :
         gen' = GenerateCall(gen, chartType, "consolidation", volatility, m)
    /\ UNCHANGED <<twin, app>>

ConsolidationNext ==
    \/ GenerateConsolidation
    \/ PreBondingCandle
    \/ PreBondingReturn
    \/ GeneratePostBonding
    \/ ConsolidationCandle
    \/ PostBondingReturn
    \/ Return

SpecConsolidation == Init /\ [][ConsolidationNext]_vars

(***************************************************************************)
(* Two generations side by side: two generators constructed with the same  *)
(* seed receive the same generate(options) call and run in lockstep.  The  *)
(* second one's Math.random() returns TwinDraw, the least grid value, at   *)
(* every call.  The calls are generate({chartType: "post", scenario,       *)
(* volatility: "medium"}).                                                 *)
(***************************************************************************)
TwinDraw == CHOOSE m \in MathGrid : \A k \in MathGrid : m <= k
\* both calls read the clock in the same second
TwinNow == CHOOSE t \in NowGrid : \A k \in NowGrid : t <= k

\* the next step of the call running on g; m holds its draws of Math.random()
RunStep(g, m) ==
    CASE g.pc = "pre" -> IF g.i < g.numCandles THEN PreBondingStep(g) ELSE PreBondingExit(g)
      [] g.pc = "postStart" -> PostBondingBegin(g, m[1])
      [] g.pc \in ScenarioNames /\ LoopEnded(g) -> [g EXCEPT !.pc = "map"]
      [] g.pc = "organic" /\ ~ LoopEnded(g) -> OrganicStep(g)
      [] g.pc = "pump_dump" /\ ~ LoopEnded(g) -> PumpDumpStep(g)
      [] g.pc = "instant_rug" /\ ~ LoopEnded(g) -> InstantRugStep(g, m)
      [] g.pc = "slow_bleed" /\ ~ LoopEnded(g) -> SlowBleedStep(g, m)
      [] g.pc = "consolidation" /\ ~ LoopEnded(g) -> ConsolidationStep(g, m)
      [] g.pc = "map" -> ReturnResult(g, TwinNow)
      [] OTHER -> g

\* how many calls of Math.random() the next step of g makes
DrawCount(g) ==
    CASE g.pc = "postStart" -> 1
      [] g.pc \in {"instant_rug", "consolidation"} /\ ~ LoopEnded(g) -> 3
      [] g.pc = "slow_bleed" /\ ~ LoopEnded(g) -> 4
      [] OTHER -> 0

\* the draws of a step that makes k calls (the unused places hold TwinDraw)
Draws(k) == {m \in [1..4 -> MathGrid \cup {TwinDraw}] :
               \A j \in 1..4 : IF j <= k THEN m[j] \in MathGrid ELSE m[j] = TwinDraw}

PairInit ==
    /\ \E seed \in Seeds : gen = Construct(seed) /\ twin = Construct(seed)
    /\ app = NoApp

PairGenerate ==
    /\ gen.pc = "idle"
    /\ \E scenario \in ScenarioInputs, m \in PickGrid :
         /\ gen' = GenerateCall(gen, "post", scenario, "medium", m)
         /\ twin' = GenerateCall(twin, "post", scenario, "medium", TwinDraw)
         /\ UNCHANGED app

PairStep ==
    /\ gen.pc \notin {"idle", "done"} \/ twin.pc \notin {"idle", "done"}
    /\ \E m \in Draws(DrawCount(gen)) : gen' = RunStep(gen, m)
    /\ twin' = RunStep(twin, [k \in 1..4 |-> TwinDraw])
    /\ UNCHANGED app

PairNext ==
    \/ PairGenerate
    \/ PairStep

SpecPair == PairInit /\ [][PairNext]_vars

(***************************************************************************)
(* The candle counts alone, over the code's range of numCandles: a         *)
(* scenario generator is entered with numCandles = n and its loops run,    *)
(* one action per loop (the inner loop of one pump_dump phase, or the      *)
(* single loop of the other generators).                                   *)
(***************************************************************************)
\* iterations of: for (let i = 0; i < phase.duration && candleCount < numCandles; i++)
PhaseEmits(ph, count, n) == Max(0, Min(PumpPhases(n)[ph].duration, n - count))

CountInit ==
    /\ \E n \in POST_MIN..POST_MAX, scn \in ScenarioNames :
         gen = [Construct([k \in 0..2 |-> 11]) EXCEPT
                  !.pc = scn, !.chartType = "post", !.scenario = scn,
                  !.finalScenario = scn, !.volatility = "medium",
                  !.numCandles = n, !.startMcap = BONDING_MCAP,
                  !.currentMcap = BONDING_MCAP,
                  !.phase = IF scn = "pump_dump" THEN 1 ELSE 0]
    /\ twin = Construct([k \in 0..2 |-> 11])
    /\ app = NoApp

CountPumpPhase ==
    /\ gen.pc = "pump_dump"
    /\ gen.phase \in 1..4
    /\ LET k == PhaseEmits(gen.phase, gen.candleCount, gen.numCandles)
       IN gen' = [gen EXCEPT !.phase = gen.phase + 1, !.i = 0,
                             !.candleCount = gen.candleCount + k,
                             !.postLen = gen.postLen + k, !.len = gen.len + k]
    /\ UNCHANGED <<twin, app>>

CountLoop ==
    /\ gen.pc \in ScenarioNames \ {"pump_dump"}
    /\ gen.i < gen.numCandles
    /\ gen' = [gen EXCEPT !.i = gen.numCandles,
                          !.postLen = gen.postLen + (gen.numCandles - gen.i),
                          !.len = gen.len + (gen.numCandles - gen.i)]
    /\ UNCHANGED <<twin, app>>

CountReturn ==
    /\ gen.pc \in ScenarioNames
    /\ LoopEnded(gen)
    /\ gen' = [gen EXCEPT !.pc = "map"]
    /\ UNCHANGED <<twin, app>>

CountNext ==
    \/ CountPumpPhase
    \/ CountLoop
    \/ CountReturn

SpecCount == CountInit /\ [][CountNext]_vars


(***************************************************************************)
(* One generator, two charts: the generator makes a first generate call,   *)
(* generate({chartType: "pre"}), and then a second one.  Beside it a       *)
(* generator constructed with the same seed makes only the second call.    *)
(* The two run the second call in lockstep and Math.random() and the clock *)
(* return the same values to both.                                         *)
(***************************************************************************)
ReuseInit ==
    /\ \E seed \in Seeds : gen = Construct(seed) /\ twin = Construct(seed)
    /\ app = NoApp

ReuseFirstCall ==
    /\ gen.pc = "idle"
    /\ gen.calls = 0
    /\ gen' = GenerateCall(gen, "pre", "random", "medium", TwinDraw)
    /\ UNCHANGED <<twin, app>>

ReuseFirstStep ==
    /\ gen.calls = 1
    /\ gen.pc \notin {"idle", "done"}
    /\ gen' = RunStep(gen, [k \in 1..4 |-> TwinDraw])
    /\ UNCHANGED <<twin, app>>

ReuseSecondCall ==
    /\ gen.calls = 1
    /\ gen.pc = "done"
    /\ twin.pc = "idle"
    /\ \E scenario \in ScenarioInputs, m \in PickGrid :
         /\ gen' = GenerateCall(gen, "post", scenario, "medium", m)
         /\ twin' = GenerateCall(twin, "post", scenario, "medium", m)
         /\ UNCHANGED app

ReuseSecondStep ==
    /\ gen.calls = 2
    /\ gen.pc \notin {"idle", "done"} \/ twin.pc \notin {"idle", "done"}
    /\ \E m \in Draws(Max(DrawCount(gen), DrawCount(twin))) :
         /\ gen' = RunStep(gen, m)
         /\ twin' = RunStep(twin, m)
         /\ UNCHANGED app

ReuseNext ==
    \/ ReuseFirstCall
    \/ ReuseFirstStep
    \/ ReuseSecondCall
    \/ ReuseSecondStep

SpecReuse == ReuseInit /\ [][ReuseNext]_vars

(***************************************************************************)
(* The phase lookup alone, over the code's range of numCandles:            *)
(* generatePreBonding is entered with numCandles = n and each iteration    *)
(* of its loop looks the phase of candle i up.                             *)
(***************************************************************************)
PhaseInit ==
    /\ \E n \in PRE_MIN..PRE_MAX :
         gen = [Construct([k \in 0..2 |-> 11]) EXCEPT
                  !.pc = "pre", !.calls = 1, !.chartType = "pre",
                  !.scenario = "random", !.finalScenario = "organic",
                  !.volatility = "medium", !.numCandles = n,
                  !.currentMcap = INITIAL_MCAP]
    /\ twin = Construct([k \in 0..2 |-> 11])
    /\ app = NoApp

PhaseLookup ==
    /\ gen.pc = "pre"
    /\ gen.i < gen.numCandles
    /\ gen' = [Lookup(gen, gen.i, gen.numCandles) EXCEPT
                 !.i = gen.i + 1, !.len = gen.len + 1, !.preLen = gen.preLen + 1]
    /\ UNCHANGED <<twin, app>>

PhaseReturn ==
    /\ gen.pc = "pre"
    /\ gen.i >= gen.numCandles
    /\ gen' = PreBondingExit(gen)
    /\ UNCHANGED <<twin, app>>

PhaseNext ==
    \/ PhaseLookup
    \/ PhaseReturn

SpecPhase == PhaseInit /\ [][PhaseNext]_vars

(***************************************************************************)
(* The candle counts of a whole generate call, over the code's ranges of   *)
(* numCandles: one action per loop.  The pre-bonding count of a chart is   *)
(* taken from PreCounts, the post-bonding count from all of 500..1500.     *)
(* Every step that is enabled is eventually taken: generate runs to its    *)
(* return once called.                                                     *)
(***************************************************************************)
PreCounts == {n \in PRE_MIN..PRE_MAX : (n - PRE_MIN) % 25 = 0}

TotalInit ==
    /\ gen = Construct([k \in 0..2 |-> 11])
    /\ twin = Construct([k \in 0..2 |-> 11])
    /\ app = NoApp

TotalGenerate ==
    /\ gen.pc = "idle"
    /\ \E chartType \in ChartTypes, scn \in ScenarioNames, n \in PreCounts :
         LET g0 == [gen EXCEPT !.calls = 1, !.chartType = chartType,
                               !.scenario = scn, !.finalScenario = scn,
                               !.volatility = "medium"]
         IN gen' = IF chartType \in {"full", "pre"}
                   THEN [g0 EXCEPT !.pc = "pre", !.numCandles = n, !.i = 0]
                   ELSE [g0 EXCEPT !.pc = "postStart"]
    /\ UNCHANGED <<twin, app>>

TotalPreLoop ==
    /\ gen.pc = "pre"
    /\ gen.i < gen.numCandles
    /\ gen' = [gen EXCEPT !.i = gen.numCandles,
                          !.preLen = gen.preLen + (gen.numCandles - gen.i),
                          !.len = gen.len + (gen.numCandles - gen.i)]
    /\ UNCHANGED <<twin, app>>

TotalPreReturn ==
    /\ gen.pc = "pre"
    /\ gen.i >= gen.numCandles
    /\ gen' = PreBondingExit(gen)
    /\ UNCHANGED <<twin, app>>

TotalPostBegin ==
    /\ gen.pc = "postStart"
    /\ \E n \in POST_MIN..POST_MAX :
         gen' = [gen EXCEPT !.pc = Dispatch(gen.finalScenario),
                            !.numCandles = n, !.i = 0, !.candleCount = 0,
                            !.phase = IF Dispatch(gen.finalScenario) = "pump_dump"
                                      THEN 1 ELSE 0]
    /\ UNCHANGED <<twin, app>>

TotalReturn ==
    /\ gen.pc = "map"
    /\ gen' = [gen EXCEPT !.pc = "done"]
    /\ UNCHANGED <<twin, app>>

TotalNext ==
    \/ TotalGenerate
    \/ TotalPreLoop
    \/ TotalPreReturn
    \/ TotalPostBegin
    \/ CountPumpPhase
    \/ CountLoop
    \/ CountReturn
    \/ TotalReturn

SpecTotal == TotalInit /\ [][TotalNext]_vars /\ WF_vars(TotalNext)

(***************************************************************************)
(* ClaudeCodeService.analyzeChart and the handler of POST                  *)
(* /api/analyze-chart.  Requests are handled concurrently: each await      *)
(* gives way to the other request.                                         *)
(***************************************************************************)

\* this.emit(name, ...): no listener is registered on the service
emit(q, name) == [q EXCEPT !.events = Append(@, name)]

\* a service that keeps no history
StoreNothing(history, r) == history

\* this.sessionHistory.set(sessionId, result)
StoreResult(history, r) == history \cup {r}

\* generateMockAnalysis(): the mock result is stored and returned
generateMockAnalysis(a, r) ==
    [a EXCEPT !.sessionHistory = StoreResult(@, r),
              !.req[r].pc = "analyzed",
              !.req[r].settled = "resolved"]

\* catch (error) { this.emit('analysisError', ...); throw ... } finally { ... }
AnalysisFailed(a, r) ==
    [a EXCEPT !.req[r] = [emit(@, "analysisError") EXCEPT
                            !.pc = "analyzed", !.settled = "rejected"]]

\* analyzeChart(imagePath) up to its first await: the mock when the service is
\* not configured, else analysisStarted, the image name and fs.copyFile
analyzeChart(a, r) ==
    LET a1 == [a EXCEPT !.req[r].called = TRUE]
    IN IF ~ a.isEnabled THEN generateMockAnalysis(a1, r)
       ELSE [a1 EXCEPT !.req[r] = [emit(@, "analysisStarted") EXCEPT
                                     !.image = a.now, !.pc = "copyFile"]]

\* await fs.copyFile(imagePath, currentDirImage) is done; fs.stat is called
CopyFileDone(a, r) ==
    [a EXCEPT !.files = @ \cup {CurrentDirImage(a.req[r].image)},
              !.req[r].pc = "stat"]

\* await fs.stat(currentDirImage) is done: 'Image file not accessible' when
\* the file is gone, else the command is started
StatDone(a, r) ==
    IF CurrentDirImage(a.req[r].image) \in a.files
    THEN [a EXCEPT !.req[r].ran = TRUE, !.req[r].pc = "exec"]
    ELSE AnalysisFailed(a, r)

\* await execPromise(command, {timeout: 60000}) is done: on success
\* fs.unlink(currentDirImage) is called, a failure or a timeout is thrown
ExecDone(a, r, outcome) ==
    IF outcome = "ok"
    THEN [a EXCEPT !.files = @ \ {CurrentDirImage(a.req[r].image)},
                   !.req[r].pc = "unlinkImage"]
    ELSE AnalysisFailed(a, r)

\* the unlink of the copied image is done (a failure is only logged): the
\* output is parsed, the result stored, analysisCompleted emitted
UnlinkImageDone(a, r) ==
    [a EXCEPT !.sessionHistory = StoreResult(@, r),
              !.req[r] = [emit(@, "analysisCompleted") EXCEPT
                            !.pc = "analyzed", !.settled = "resolved"]]

\* await fs.unlink(imagePath) is called on the upload
CleanupUpload(a, r) ==
    [a EXCEPT !.files = @ \ {UploadPath(r)}, !.req[r].unlinks = @ + 1]

\* a handler whose catch leaves the upload
CleanupAfterErrorSkipped(a, r) == a

\* catch (error): if (req.file) { await fs.unlink(req.file.path) }
CleanupAfterError(a, r) == IF a.req[r].hasFile THEN CleanupUpload(a, r) ELSE a

\* the handler up to its first await: 400 without a file; JSON.parse of the
\* metadata, which throws into the catch; the call of analyzeChart
Receive(a, r, hasFile, metadataOk) ==
    LET a1 == [a EXCEPT !.req[r].hasFile = hasFile,
                        !.files = IF hasFile THEN @ \cup {UploadPath(r)} ELSE @]
    IN IF ~ hasFile
       THEN [a1 EXCEPT !.req[r].status = 400, !.req[r].pc = "done"]
       ELSE IF ~ metadataOk
       THEN [CleanupAfterError(a1, r) EXCEPT !.req[r].pc = "errUnlink"]
       ELSE analyzeChart(a1, r)

\* await claudeService.analyzeChart(imagePath) settles: the clean-up of the
\* try on a result, the one of the catch on a rejection
AnalysisSettled(a, r) ==
    IF a.req[r].settled = "resolved"
    THEN [CleanupUpload(a, r) EXCEPT !.req[r].pc = "okUnlink"]
    ELSE [CleanupAfterError(a, r) EXCEPT !.req[r].pc = "errUnlink"]

\* the unlink of the upload is done: res.json(...) or res.status(500).json(...)
Respond(a, r) ==
    [a EXCEPT !.req[r].status = IF a.req[r].pc = "okUnlink" THEN 200 ELSE 500,
              !.req[r].pc = "done"]

AnalyzeInit ==
    /\ gen = Construct([k \in 0..2 |-> 11])
    /\ twin = Construct([k \in 0..2 |-> 11])
    /\ \E isEnabled \in BOOLEAN : app = [AppOff EXCEPT !.isEnabled = isEnabled]

\* Date.now() moves on
Tick ==
    /\ app.now < MaxTick
    /\ app' = [app EXCEPT !.now = @ + 1]
    /\ UNCHANGED <<gen, twin>>

PostAnalyzeChart ==
    /\ \E r \in Requests, hasFile \in BOOLEAN, metadataOk \in BOOLEAN :
         /\ app.req[r].pc = "idle"
         /\ app' = Receive(app, r, hasFile, metadataOk)
    /\ UNCHANGED <<gen, twin>>

CopyFileResumes ==
    /\ \E r \in Requests :
         /\ app.req[r].pc = "copyFile"
         /\ app' = CopyFileDone(app, r)
    /\ UNCHANGED <<gen, twin>>

StatResumes ==
    /\ \E r \in Requests :
         /\ app.req[r].pc = "stat"
         /\ app' = StatDone(app, r)
    /\ UNCHANGED <<gen, twin>>

ExecResumes ==
    /\ \E r \in Requests, outcome \in {"ok", "failed", "timeout"} :
         /\ app.req[r].pc = "exec"
         /\ app' = ExecDone(app, r, outcome)
    /\ UNCHANGED <<gen, twin>>

UnlinkImageResumes ==
    /\ \E r \in Requests :
         /\ app.req[r].pc = "unlinkImage"
         /\ app' = UnlinkImageDone(app, r)
    /\ UNCHANGED <<gen, twin>>

AnalyzeChartSettles ==
    /\ \E r \in Requests :
         /\ app.req[r].pc = "analyzed"
         /\ app' = AnalysisSettled(app, r)
    /\ UNCHANGED <<gen, twin>>

UnlinkUploadResumes ==
    /\ \E r \in Requests :
         /\ app.req[r].pc \in {"okUnlink", "errUnlink"}
         /\ app' = Respond(app, r)
    /\ UNCHANGED <<gen, twin>>

AnalyzeNext ==
    \/ Tick
    \/ PostAnalyzeChart
    \/ CopyFileResumes
    \/ StatResumes
    \/ ExecResumes
    \/ UnlinkImageResumes
    \/ AnalyzeChartSettles
    \/ UnlinkUploadResumes

SpecAnalyze == AnalyzeInit /\ [][AnalyzeNext]_vars

(***************************************************************************)
(* The page: analyzeChart() of the script, its button and its sidebar.     *)
(***************************************************************************)

\* the three panels show a loading text
ShowLoading(ui) == [ui EXCEPT !.sidebar = "loading"]

\* catch (error): the three panels show the error
ShowError(ui) == [ui EXCEPT !.sidebar = "error"]

\* a finally that restores the label only
ResetTextOnly(ui) == [ui EXCEPT !.textContent = "Analyze with Claude", !.pc = "idle"]

\* finally: analyzeBtn.textContent = "Analyze with Claude"; disabled = false
ResetButton(ui) ==
    [ui EXCEPT !.textContent = "Analyze with Claude", !.disabled = FALSE,
               !.pc = "idle"]

\* a throw inside the try: catch, then finally
AnalysisThrew(ui) == ResetButton(ShowError(ui))

\* analyzeChart() up to its first await: the alert and the return without a
\* chart, else the loading state and html2canvas(chartContainer, ...)
AnalyzeStart(ui) ==
    IF ui.currentData = 0 THEN [ui EXCEPT !.runs = @ + 1]
    ELSE [ShowLoading(ui) EXCEPT !.textBefore = ui.textContent,
                                 !.textContent = "Analyzing...",
                                 !.disabled = TRUE,
                                 !.runs = @ + 1,
                                 !.pc = "html2canvas"]

\* await html2canvas(...) settles; canvas.toBlob is called
CanvasDone(ui, ok) == IF ok THEN [ui EXCEPT !.pc = "toBlob"] ELSE AnalysisThrew(ui)

\* the blob arrives, null when the canvas cannot be encoded (blob.size throws);
\* the form is built and fetch("/api/analyze-chart") called
BlobDone(ui, ok) ==
    IF ok THEN [ui EXCEPT !.chartId = ui.currentData, !.pc = "fetch"]
    ELSE AnalysisThrew(ui)

\* await fetch(...) settles; response.json() is called
FetchDone(ui, ok) == IF ok THEN [ui EXCEPT !.pc = "json"] ELSE AnalysisThrew(ui)

\* await response.json() settles: displayAnalysisResults on success: true, a
\* throw on success: false and on a body that is not JSON
JsonDone(ui, outcome) ==
    IF outcome = "success" THEN ResetButton([ui EXCEPT !.sidebar = "results"])
    ELSE AnalysisThrew(ui)

UiInit ==
    /\ gen = Construct([k \in 0..2 |-> 11])
    /\ twin = Construct([k \in 0..2 |-> 11])
    /\ app = AppOff

\* DOMContentLoaded: setupEventListeners(); generateNewChart()
DomContentLoaded ==
    /\ ~ app.ui.ready
    /\ app' = [app EXCEPT !.ui.ready = TRUE, !.ui.currentData = 1]
    /\ UNCHANGED <<gen, twin>>

\* a click on generateBtn: currentData = generator.generate(options)
GenerateNewChart ==
    /\ app.ui.ready
    /\ app' = [app EXCEPT !.ui.currentData = (@ % MaxCharts) + 1]
    /\ UNCHANGED <<gen, twin>>

\* analyzeChart() is called: by a click on the enabled button, or before the
\* first chart exists
AnalyzeChartCalled ==
    /\ app.ui.pc = "idle"
    /\ ~ app.ui.disabled
    /\ app.ui.runs < MaxRuns
    /\ app' = [app EXCEPT !.ui = AnalyzeStart(@)]
    /\ UNCHANGED <<gen, twin>>

CanvasResumes ==
    /\ app.ui.pc = "html2canvas"
    /\ \E ok \in BOOLEAN : app' = [app EXCEPT !.ui = CanvasDone(@, ok)]
    /\ UNCHANGED <<gen, twin>>

BlobResumes ==
    /\ app.ui.pc = "toBlob"
    /\ \E ok \in BOOLEAN : app' = [app EXCEPT !.ui = BlobDone(@, ok)]
    /\ UNCHANGED <<gen, twin>>

FetchResumes ==
    /\ app.ui.pc = "fetch"
    /\ \E ok \in BOOLEAN : app' = [app EXCEPT !.ui = FetchDone(@, ok)]
    /\ UNCHANGED <<gen, twin>>

JsonResumes ==
    /\ app.ui.pc = "json"
    /\ \E outcome \in {"success", "failure", "notJson"} :
         app' = [app EXCEPT !.ui = JsonDone(@, outcome)]
    /\ UNCHANGED <<gen, twin>>

UiNext ==
    \/ DomContentLoaded
    \/ GenerateNewChart
    \/ AnalyzeChartCalled
    \/ CanvasResumes
    \/ BlobResumes
    \/ FetchResumes
    \/ JsonResumes

\* every promise the run awaits settles
SpecUi ==
    /\ UiInit
    /\ [][UiNext]_vars
    /\ WF_vars(CanvasResumes)
    /\ WF_vars(BlobResumes)
    /\ WF_vars(FetchResumes)
    /\ WF_vars(JsonResumes)

(***************************************************************************)
(* The claims                                                              *)
(***************************************************************************)
\* the scenario generator that produced the post-bonding candles of g
Producer(g) == Dispatch(g.finalScenario)

\* C1: continuity - every candle after the first opens at the close of the candle
\* before it, also the first post-bonding candle after the last pre-bonding one.
Continuity == gen.len >= 2 => gen.last.open = gen.prevClose

\* C1 witness: the first post-bonding candle of a full chart has been pushed and
\* opens at the last pre-bonding close, which is not the bonding cap
ContinuityAtBoundary ==
    /\ gen.chartType = "full" /\ gen.preLen > 0 /\ gen.postLen = 1
    /\ gen.last.open = gen.prevClose /\ gen.prevClose # BONDING_MCAP

\* C2 (as claimed): every post-bonding candle of every scenario closes at or below
\* the bonding ceiling.
CeilingRespect == gen.stage = "post" => gen.last.close <= BONDING_MCAP

\* C3 (as claimed): every candle has high >= max(open, close).
HighAboveBody ==
    gen.len > 0 => gen.last.high >= Max(gen.last.open, gen.last.close)

\* C4 (as claimed): every candle has low <= min(open, close).
LowBelowBody ==
    gen.len > 0 => gen.last.low <= Min(gen.last.open, gen.last.close)

\* C5 (as claimed): every candle has low >= 0 and open, high, low, close all > 0.
PricesPositive ==
    gen.len > 0 =>
        /\ gen.last.low >= 0
        /\ gen.last.open > 0 /\ gen.last.high > 0
        /\ gen.last.low > 0 /\ gen.last.close > 0

\* C6: every candle has volume > 0, and a candle of a stage with a running volume
\* average has at least the stage minimum: 10000 pre-bonding, 15000 organic,
\* 20000 pump_dump.
VolumeFloor ==
    gen.len > 0 =>
        /\ gen.last.volume > 0
        /\ gen.stage = "pre" => gen.last.volume >= 10000
        /\ gen.stage = "post" /\ Producer(gen) = "organic" => gen.last.volume >= 15000
        /\ gen.stage = "post" /\ Producer(gen) = "pump_dump" => gen.last.volume >= 20000

\* C6 witness: a pump_dump candle whose computed volume was below the floor
VolumeFloorBinds ==
    gen.stage = "post" /\ Producer(gen) = "pump_dump" /\ gen.last.volume = 20000

\* C7 (as claimed): every post-bonding candle has high <= 1.01 x bonding ceiling.
WickAllowance == gen.stage = "post" => gen.last.high * 100 <= BONDING_MCAP * 101

\* C8 (as claimed): two generations with the same seed and the same options have
\* the same candle at every index.
Deterministic ==
    (/\ gen.seed = twin.seed /\ gen.chartType = twin.chartType
     /\ gen.scenario = twin.scenario /\ gen.volatility = twin.volatility
     /\ gen.finalScenario = twin.finalScenario
     /\ gen.len = twin.len /\ gen.len > 0)
    => gen.last = twin.last

\* C9 (as claimed): the scenario generator returns exactly numCandles candles.
CountConservation == gen.pc = "map" => gen.postLen = gen.numCandles

\* the instant_rug generator has returned
RugDone ==
    gen.pc \in {"map", "done"} /\ gen.chartType # "pre" /\ Producer(gen) = "instant_rug"

\* C10 (as claimed): an instant_rug segment has exactly one candle with
\* close / open <= 0.15, at an index in [10, 30), whatever its start cap.
RugShape ==
    RugDone => gen.drops = 1 /\ gen.dropAt >= RUG_MIN /\ gen.dropAt < RUG_MAX

\* C10 (amended): an instant_rug segment whose start cap is at least 10000 has
\* exactly one candle with close / open <= 0.15, at the rug index, which lies in
\* [10, 30] with both ends included.
RugShapeInclusive ==
    RugDone /\ gen.startMcap >= 10000 =>
        /\ gen.drops = 1
        /\ gen.dropAt = gen.rugPoint
        /\ gen.dropAt >= RUG_MIN /\ gen.dropAt <= RUG_MAX

\* C10 witness: a full chart whose instant_rug segment started at 10000 or more
\* and rugged at index 30
RugAtLastIndex ==
    /\ RugDone /\ gen.chartType = "full" /\ gen.startMcap >= 10000
    /\ gen.drops = 1 /\ gen.dropAt = RUG_MAX

\* C11: instant-rug dead chart - once the rug-index candle has been emitted, every
\* later candle is near-flat, |close / open - 1| < 0.01, and is neither a pre-rug
\* candle nor a rug candle (no drop, and the volume of the dead branch).
DeadChart ==
    (gen.stage = "post" /\ Producer(gen) = "instant_rug"
       /\ gen.postLen - 1 > gen.rugPoint) =>
        /\ Abs(gen.last.close - gen.last.open) * 100 < Abs(gen.last.open)
        /\ ~ IsDrop(gen.last)
        /\ gen.last.volume < 100000
        /\ gen.dropAt <= gen.rugPoint

\* C11 witness: the second candle after the rug has been emitted
DeadChartTail ==
    /\ gen.stage = "post" /\ Producer(gen) = "instant_rug"
    /\ gen.postLen - 1 >= gen.rugPoint + 2
    /\ gen.drops = 1 /\ gen.dropAt = gen.rugPoint

\* the scenario names generate documents
KnownScenarios == ScenarioNames \cup {"random"}

\* C12 (as claimed): a generate call whose scenario is none of the five names or
\* "random" fails fast: it pushes no candle and returns no chart.
RejectsUnknownScenario ==
    (gen.pc # "idle" /\ gen.scenario \notin KnownScenarios) =>
        /\ gen.len = 0
        /\ gen.pc \notin ScenarioNames \cup {"map", "done"}

\* C13 (as claimed): scenario "random" picks one of the five names, and the
\* scenario field of every returned chart with post-bonding candles names the
\* generator that produced them.
LabelIsGroundTruth ==
    gen.pc # "idle" =>
        /\ gen.scenario = "random" => gen.finalScenario \in ScenarioNames
        /\ (gen.pc = "done" /\ gen.postLen > 0) => gen.result.scenario = Producer(gen)

\* C14: chartType "post" with scenario "organic" - every candle closes at or below
\* the bonding cap, and so does every close and the peakMcap of the returned chart.
OrganicUnderCeiling ==
    (gen.chartType = "post" /\ gen.scenario = "organic") =>
        /\ gen.stage = "post" => gen.last.close <= BONDING_MCAP
        /\ gen.pc = "done" =>
             /\ gen.result.metadata.peakMcap <= BONDING_MCAP
             /\ \A k \in 1..Len(gen.result.closes) : gen.result.closes[k] <= BONDING_MCAP

\* C14 witness: a returned post-only organic chart of low volatility whose peak is
\* the bonding cap itself, which only the clamp of close produces
OrganicAtCeiling ==
    /\ gen.chartType = "post" /\ gen.scenario = "organic" /\ gen.volatility = "low"
    /\ gen.pc = "done" /\ gen.result.metadata.totalCandles >= MinPostCandles
    /\ gen.result.metadata.peakMcap = BONDING_MCAP

\* C18 (as claimed): the metadata of a returned chart - totalCandles is the number
\* of candles, peakMcap the maximum close, minMcap the minimum close, finalMcap the
\* last close, startMcap the capitalization the chart started at; minMcap <=
\* startMcap and finalMcap <= peakMcap.
MetadataReduction ==
    gen.pc = "done" =>
        LET md == gen.result.metadata
            closes == gen.result.closes
        IN /\ md.totalCandles = Len(gen.result.times)
           /\ md.totalCandles = gen.len
           /\ \A k \in 1..Len(closes) : closes[k] <= md.peakMcap /\ closes[k] >= md.minMcap
           /\ \E k \in 1..Len(closes) : closes[k] = md.peakMcap
           /\ \E k \in 1..Len(closes) : closes[k] = md.minMcap
           /\ md.finalMcap = gen.last.close
           /\ md.startMcap = gen.firstOpen
           /\ md.minMcap <= md.startMcap
           /\ md.finalMcap <= md.peakMcap

\* C19: first open - a chart with a pre-bonding segment opens at the initial
\* capitalization; the first post-bonding candle opens at the last pre-bonding
\* close in a full chart and at the bonding cap in a post-only chart.
FirstOpen ==
    /\ (gen.len > 0 /\ gen.chartType \in {"full", "pre"}) => gen.firstOpen = INITIAL_MCAP
    /\ (gen.len = 1 /\ gen.stage = "pre") => gen.last.open = INITIAL_MCAP
    /\ (gen.postLen = 1 /\ gen.stage = "post" /\ gen.chartType = "full") =>
          gen.preLen > 0 /\ gen.last.open = gen.prevClose
    /\ (gen.postLen = 1 /\ gen.stage = "post" /\ gen.chartType = "post") =>
          gen.last.open = BONDING_MCAP
    /\ (gen.len > 0 /\ gen.chartType = "post") => gen.firstOpen = BONDING_MCAP

\* C19 witness: a returned full chart that opened at the initial capitalization
\* and whose post-bonding segment started away from both caps
FirstOpenFullChart ==
    /\ gen.pc = "done" /\ gen.chartType = "full"
    /\ gen.firstOpen = INITIAL_MCAP /\ gen.preLen > 0 /\ gen.postLen > 0
    /\ gen.startMcap \notin {INITIAL_MCAP, BONDING_MCAP}

\* C20: output timestamps - result.data has one entry per generated candle, in the
\* order generated; consecutive times differ by exactly 60 seconds, and the
\* 60-second step of the last candle ends at now.
Timestamps ==
    gen.pc = "done" =>
        LET times == gen.result.times
        IN /\ Len(times) = gen.len
           /\ gen.result.closes = gen.marketCaps
           /\ \A k \in 1..(Len(times) - 1) : times[k + 1] - times[k] = 60
           /\ Len(times) > 0 => times[Len(times)] + 60 = gen.result.now

\* C20 witness: a returned full chart with its pre- and post-bonding candles
\* stamped, the first one length minutes before now
TimestampsFullChart ==
    /\ gen.pc = "done" /\ gen.chartType = "full"
    /\ Len(gen.result.times) = gen.preLen + gen.postLen /\ gen.postLen > 0
    /\ gen.result.times[1] = gen.result.now - 60 * gen.len

\* C15 (as claimed): a generate call leaves no state behind - the candles of a call
\* made after an earlier call on the same generator are the candles the same call
\* gives on a generator that made no earlier call.
CallsIndependent ==
    (/\ gen.calls = 2 /\ twin.calls = 1 /\ gen.seed = twin.seed
     /\ gen.scenario = twin.scenario /\ gen.finalScenario = twin.finalScenario
     /\ gen.len = twin.len /\ gen.len > 0)
    => gen.last = twin.last

\* C16: pre-bonding phase lookup - the candle looked up last (index gen.i - 1 of
\* numCandles) passes the test of exactly one phase, or of none when it is the
\* last candle, which then takes the last phase; the selected phase is never
\* behind one selected earlier; when the loop has ended all six were selected.
PhaseLookupSound ==
    gen.preLen > 0 =>
        /\ gen.phaseHits = IF gen.i = gen.numCandles THEN 0 ELSE 1
        /\ gen.i = gen.numCandles => gen.phaseIdx = Len(marketPhases)
        /\ gen.phaseIdx \in 1..Len(marketPhases)
        /\ \A k \in gen.phasesSeen : k <= gen.phaseIdx
        /\ gen.i = gen.numCandles => gen.phasesSeen = 1..Len(marketPhases)

\* C16 witness: the longest loop has ended; its last candle matched no phase and
\* took final_push, and all six phases were selected on the way
PhaseFallbackTaken ==
    /\ gen.pc = "map" /\ gen.numCandles = PRE_MAX /\ gen.preLen = PRE_MAX
    /\ gen.phaseHits = 0 /\ gen.phaseIdx = Len(marketPhases)
    /\ gen.phasesSeen = 1..Len(marketPhases)

\* the candle counts of a returned chart are within the bounds of its chart type
CountsBounded ==
    gen.pc = "done" =>
        /\ gen.len = gen.preLen + gen.postLen
        /\ gen.chartType = "pre" =>
             gen.len >= PRE_MIN /\ gen.len <= PRE_MAX /\ gen.postLen = 0
        /\ gen.chartType = "post" =>
             gen.len >= POST_MIN /\ gen.len <= POST_MAX /\ gen.preLen = 0
        /\ gen.chartType = "full" =>
             gen.len >= PRE_MIN + POST_MIN /\ gen.len <= 2000

\* C17: every generate call terminates, and the number of candles it returns is
\* bounded: 150..400 for chartType pre, 500..1500 for post, at most 2000 for full.
BoundedWork == [] CountsBounded /\ <>(gen.pc = "done")

\* C17 witness: a returned full chart of the greatest counts
LongestChart ==
    /\ gen.pc = "done" /\ gen.chartType = "full"
    /\ gen.preLen = PRE_MAX /\ gen.postLen = POST_MAX

(***************************************************************************)
(* Pre-bonding: mean reversion, close clamp, swing clamp                   *)
(***************************************************************************)

\* the expected cap as the specification words it: from 5000 towards 40000,
\* linear in the progress i / (n - 1)
ExpectedCap(i, n) == 5000 + (35000 * i) \div (n - 1)

\* the step that produced the last candle was step gen.i - 1 of generatePreBonding
InPreBonding == gen.pc = "pre" /\ gen.i >= 1

\* currentCap > 1.5 x expectedCap(i) at the step of the last candle
BrokenOutAtLast == gen.last.open * 10 > 15 * ExpectedCap(gen.i - 1, gen.numCandles)

\* (expectedCap - currentCap) / |currentCap| x 0.008 at the step of the last
\* candle, basis points
ReversionAtLast ==
    MulDiv(MulDiv(ExpectedCap(gen.i - 1, gen.numCandles) - gen.last.open, 10000,
                  IF gen.last.open = 0 THEN 1 ELSE Abs(gen.last.open)),
           8, 1000)

\* C21 (as claimed): at every pre-bonding step the reversion term is zero
\* exactly when currentCap > 1.5 x expectedCap(i).
ReversionZeroIffBrokenOut ==
    InPreBonding => (gen.marketMemory = 0 <=> BrokenOutAtLast)

\* C21 (amended): at every pre-bonding step the reversion term is decided from
\* that step's cap alone: it is set to zero when currentCap > 1.5 x
\* expectedCap(i), and is (expectedCap - currentCap) / |currentCap| x 0.008
\* otherwise, which is itself zero where currentCap = expectedCap(i), as at
\* step 0.
ReversionPerStep ==
    InPreBonding =>
        /\ gen.hasBrokenOut <=> BrokenOutAtLast
        /\ gen.marketMemory = IF BrokenOutAtLast THEN 0 ELSE ReversionAtLast

\* C21 witness: a step with a non-zero reversion term right after a step that
\* had broken out
ReversionResumes ==
    InPreBonding /\ gen.wasBrokenOut /\ ~ gen.hasBrokenOut /\ gen.marketMemory # 0

\* open x (1 + totalReturn) of the last pre-bonding candle
RawClose == TimesBp(gen.last.open, 10000 + gen.totalChangePercent)

SwingOfLast ==
    Max(MulDiv(Abs(gen.last.close - gen.last.open), 15, 10),
        (gen.last.open * 5) \div 100)

Share(ph, n) ==
    CASE ph = 1 -> (n * 25) \div 100
      [] ph = 2 -> (n * 25) \div 100
      [] ph = 3 -> (n * 15) \div 100
      [] ph = 4 -> (n * 35) \div 100

RECURSIVE SharesBefore(_, _)
SharesBefore(ph, n) == IF ph <= 1 THEN 0 ELSE SharesBefore(ph - 1, n) + Share(ph - 1, n)

\* drift per phase, basis points: accumulation, pump, distribution, dump
PhaseDrift(ph) == CASE ph = 1 -> 20 [] ph = 2 -> 80 [] ph = 3 -> -10 [] ph = 4 -> -150

\* the open of the last candle is within 5% of the ceiling
OpenNearCeiling == (BONDING_MCAP - gen.last.open) * 100 < 5 * gen.last.open

\* a candle of generatePumpDump has been pushed and the generator is still in it
InPumpDump == gen.pc = "pump_dump" /\ gen.candleCount >= 1

\* the candle count places the last candle in its phase: phases in table order,
\* each with its share, none entered twice
PhaseOrder ==
    InPumpDump =>
        /\ gen.phase \in 1..4
        /\ gen.i \in 1..Share(gen.phase, gen.numCandles)
        /\ gen.candleCount = SharesBefore(gen.phase, gen.numCandles) + gen.i
        /\ gen.drift = IF gen.phase = 2 /\ OpenNearCeiling
                       THEN (PhaseDrift(2) * 3) \div 10
                       ELSE PhaseDrift(gen.phase)

\* from one candle to the next the phase stays or moves on to a later one
PhaseNeverReentered ==
    InPumpDump /\ gen'.pc = "pump_dump" => gen'.phase >= gen.phase

\* C24 (as claimed): pump_dump emits accumulation, pump, distribution, dump in that order
\* with shares 25%, 25%, 15%, 35% of numCandles, never re-enters a phase, and
\* multiplies the pump drift by 0.3 exactly on the pump candles whose open is
\* within 5% of the ceiling.
PumpDumpPhases == [] PhaseOrder /\ [][PhaseNeverReentered]_vars

(***************************************************************************)
(* consolidation: band, breakout                                           *)
(***************************************************************************)

\* a candle of generateConsolidation has been pushed and the generator is still
\* in it; the candle has index gen.i - 1
InConsolidation == gen.pc = "consolidation" /\ gen.i >= 1

\* floor(0.7 x numCandles)
BreakoutStart == (gen.numCandles * 7) \div 10

\* C25 (as claimed): among the first 70% of the candles of a consolidation
\* chart every close lies between 0.9 x startCap and 1.1 x startCap.
ConsolidationBand ==
    InConsolidation /\ gen.i - 1 < BreakoutStart =>
        /\ gen.last.close * 10 >= 9 * gen.startMcap
        /\ gen.last.close * 10 <= 11 * gen.startMcap

\* the breakout magnitude of the last candle, basis points:
\* 0.008 x (1 + breakoutProgress)
BreakoutMagnitude ==
    80 + (80 * (gen.i - 1 - BreakoutStart)) \div (gen.numCandles - BreakoutStart)

\* the candles before floor(0.7 x numCandles) take the consolidation rule (no
\* breakout drift), the others a drift of the chosen sign and of magnitude
\* 0.008 x (1 + breakoutProgress), never below the one of the candle before
BreakoutRule ==
    InConsolidation =>
        IF gen.i - 1 < BreakoutStart
        THEN gen.drift = 0
        ELSE /\ gen.drift = IF gen.breakoutUp THEN BreakoutMagnitude
                            ELSE - BreakoutMagnitude
             /\ Abs(gen.drift) >= Abs(gen.prevDrift)

\* within a run the sign stays as chosen, and a breakout candle is followed by
\* breakout candles only
BreakoutKept ==
    InConsolidation /\ gen'.pc = "consolidation" =>
        /\ gen'.breakoutUp = gen.breakoutUp
        /\ gen.drift # 0 => gen'.drift # 0

\* C26: the breakout sign is chosen once at scenario start; every candle with
\* index >= floor(0.7 x numCandles) applies a breakout drift of that sign whose
\* magnitude 0.008 x (1 + breakoutProgress) never decreases from one candle to
\* the next, and no candle after the first breakout candle uses the
\* consolidation rule again.
BreakoutOnce == [] BreakoutRule /\ [][BreakoutKept]_vars

\* C26 witness: a downward breakout candle with a larger drift than the
\* breakout candle before it
BreakoutGrows ==
    /\ InConsolidation
    /\ ~ gen.breakoutUp
    /\ gen.prevDrift < 0
    /\ gen.drift < gen.prevDrift

(***************************************************************************)
(* Upload endpoint, analysis service, page                                 *)
(***************************************************************************)

\* C27: every request with a file has had fs.unlink called on its upload exactly
\* once, and the upload gone, when its response (200 or 500) is sent, and never
\* more than once before; a request without a file gets 400, no analysis and no
\* unlink.
UploadCleanup ==
    \A r \in Requests :
        LET q == app.req[r]
        IN /\ q.unlinks <= 1
           /\ q.status # 0 =>
                IF q.hasFile
                THEN /\ q.status \in {200, 500}
                     /\ q.unlinks = 1
                     /\ UploadPath(r) \notin app.files
                ELSE q.status = 400 /\ ~ q.called /\ q.unlinks = 0

\* C27 witness: one request answered 200 and one answered 500 for malformed
\* metadata, each with its upload unlinked once
UploadCleanedBothWays ==
    \E r1, r2 \in Requests :
        /\ app.req[r1].status = 200 /\ app.req[r1].unlinks = 1
        /\ app.req[r2].status = 500 /\ app.req[r2].unlinks = 1
        /\ ~ app.req[r2].called

\* C28: on a configured service every call emits analysisStarted first, then
\* exactly one of analysisCompleted (the call resolves, the result is stored)
\* or analysisError (the call rejects, nothing is stored); on an unconfigured
\* service a call emits nothing, starts no command and stores the mock.
EventProtocol ==
    \A r \in Requests :
        LET q == app.req[r]
        IN q.called =>
             IF app.isEnabled
             THEN CASE q.settled = "none" ->
                         q.events = <<"analysisStarted">> /\ r \notin app.sessionHistory
                    [] q.settled = "resolved" ->
                         /\ q.events = <<"analysisStarted", "analysisCompleted">>
                         /\ r \in app.sessionHistory
                    [] q.settled = "rejected" ->
                         /\ q.events = <<"analysisStarted", "analysisError">>
                         /\ r \notin app.sessionHistory
             ELSE /\ q.events = <<>>
                  /\ ~ q.ran
                  /\ q.settled = "resolved"
                  /\ r \in app.sessionHistory

\* C28 witness: on a configured service one call resolved and one rejected
\* after its command had started
BothOutcomes ==
    /\ app.isEnabled
    /\ \E r1, r2 \in Requests :
         /\ app.req[r1].settled = "resolved"
         /\ app.req[r2].settled = "rejected" /\ app.req[r2].ran

\* C29 (as claimed): once an analyzeChart call has settled, the image it copied
\* into the working directory is gone.
CopiedImageRemoved ==
    \A r \in Requests :
        app.req[r].settled # "none" /\ app.req[r].image # 0 =>
            CurrentDirImage(app.req[r].image) \notin app.files

\* a run has put the button into its loading state
ButtonBusy == app.ui.disabled /\ app.ui.textContent = "Analyzing..."

\* the button is enabled again and labelled as before the run
ButtonRestored == ~ app.ui.disabled /\ app.ui.textContent = app.ui.textBefore

\* a call without a chart returns and leaves the button as it was
NoChartNoChange ==
    app.ui.pc = "idle" /\ app.ui.currentData = 0 /\ app'.ui.runs > app.ui.runs =>
        /\ app'.ui.textContent = app.ui.textContent
        /\ app'.ui.disabled = app.ui.disabled
        /\ app'.ui.pc = "idle"

====
